---- MODULE Spec2Model ----
(***************************************************************************)
(* Model of the endpoint package: the TCP, UDP, Unix-domain and serial     *)
(* transports over a process descriptor table, the factory, and the        *)
(* sync.Map registry of opened endpoints.                                  *)
(*                                                                         *)
(* Spec     : goroutines call the registry-backed Open, Find and Delete    *)
(*            concurrently; every sync.Map operation is one step.          *)
(* SeqSpec  : the same calls, one call in flight at a time.                *)
(* LifeSpec : one endpoint after the other is opened through the factory   *)
(*            and then closed, read and written.                           *)
(* ReadSpec : one serial endpoint is opened and read; every system call    *)
(*            and clock reading of serial.Read is one step, and the line   *)
(*            delivers bytes and the clock advances in between.            *)
(* WriteSpec: one serial endpoint is opened and written; every system call *)
(*            and clock reading of serial.Write is one step.               *)
(* WriteLiveSpec: WriteSpec with deadlines the clock reaches, under weak     *)
(*            fairness of the clock and of the steps of serial.Write.      *)
(* SerialSpec: one serial endpoint is opened through the factory, with any *)
(*            answers of the device, and closed, read and written.         *)
(* AddrSpec : endpoints are opened through the factory and asked for their *)
(*            socket address; every call frame of SockAddr is one step.    *)
(***************************************************************************)
EXTENDS Integers, Sequences, FiniteSets, TLC

\* ------------------------------------------------------------------ bounds
NCallers == 2        \* goroutines calling into the registry
MaxEP    == 2        \* endpoints newEndPoint may allocate in one run
MaxFd    == 2        \* size of the process descriptor table
MaxClose == 2        \* Close calls made on one endpoint
MaxIo    == 1        \* Read/Write calls made on one endpoint
MaxEintr == 1        \* interruptions of one device open
MaxTime  == 3        \* clock readings, in milliseconds
MaxBuf   == 2        \* length of the buffer handed to Read
MaxBytes == 3        \* bytes the serial line delivers in one run
MaxChunk == 1        \* bytes the descriptor accepts in one write call
MaxStack == 3        \* call frames the goroutine stack holds

\* ------------------------------------------------------- program constants
EndPointTCP    == 0
EndPointUnix   == 1
EndPointUDP    == 2
EndPointSerial == 3

PARITY_NONE  == 0
PARITY_ODD   == 1
PARITY_EVEN  == 2
PARITY_MARK  == 3
PARITY_SPACE == 4

DefaultReadTimeout  == 5000
DefaultWriteTimeout == 1000

NoFd == -1

Callers   == 1..NCallers
FdNums    == 0..(MaxFd - 1)
Names     == {"a", "b"}
NetTypes  == {EndPointTCP, EndPointUnix, EndPointUDP}
Types     == NetTypes \cup {EndPointSerial}

VARIABLES
    os,      \* descriptor table: os[fd] = [own, nonblock, cloexec], own = 0 when free
    ep,      \* ep[e]: the fields of endpoint object e, in order of allocation
    log,     \* log[e]: the system calls issued by the latest method call on endpoint e
    calls,   \* calls[e]: what the methods of e have returned and released so far
    reg,     \* the sync.Map: reg[name] = [ok, slice]
    hist,    \* hist[name]: endpoints whose Open returned nil since the last Delete of name
    pc,      \* pc[g]: where goroutine g stands
    loc,     \* loc[g]: the locals of goroutine g's call in flight
    last,    \* the call that returned last: its arguments and results
    rd,      \* the serial Read call in flight or returned last: its locals and results
    tty,     \* the serial line and the clock: [now, pending, delivered, hup]
    wr,      \* the serial Write call in flight or returned last: its locals and results
    sa       \* the SockAddr call in flight or returned last: [pc, e, depth]

vars == <<os, ep, log, calls, reg, hist, pc, loc, last, rd, tty, wr, sa>>

\* --------------------------------------------------------- descriptor table
FreeDesc == [own |-> 0, nonblock |-> FALSE, cloexec |-> FALSE]

FreeFds(o) == {fd \in FdNums : o[fd].own = 0}

\* The kernel hands out the lowest free descriptor number.
LowestFree(o) == CHOOSE fd \in FreeFds(o) : \A g \in FreeFds(o) : fd <= g

Ev(op, fd) == [op |-> op, fd |-> fd]

\* A close that releases nothing.
SysCloseKeeps(o, fd) == [os |-> o, err |-> "nil"]

\* close(2): releases whatever descriptor the number names now; EBADF otherwise.
SysClose(o, fd) ==
    IF fd \in FdNums /\ o[fd].own # 0
    THEN [os |-> [o EXCEPT ![fd] = FreeDesc], err |-> "nil"]
    ELSE [os |-> o, err |-> "EBADF"]

\* ------------------------------------------------ results of a method call
\* A method's outcome: the endpoint's fields, the descriptor table, the
\* endpoint's system-call log and the error returned ("nil" for none).
Ret(p, o, lg, err) == [p |-> p, os |-> o, log |-> lg, err |-> err]

\* -------------------------------------------------------------- sysSocket
\* What the kernel answers to socket(2): EMFILE when the table is full.
SocketAnswer(o, want) ==
    IF want = "ok" THEN (IF FreeFds(o) = {} THEN "EMFILE" ELSE "nil") ELSE want

\* f.s1: answer to the creation with SOCK_NONBLOCK|SOCK_CLOEXEC, f.s2: answer to
\* the plain creation of the fallback, f.nb: answer to SetNonblock.
\* Returns [fd, err, os, log].
sysSocket(e, o, lg, f) ==
    LET r1 == SocketAnswer(o, f.s1) IN
    IF r1 = "nil"
    THEN LET s == LowestFree(o) IN
         [fd |-> s, err |-> "nil",
          os |-> [o EXCEPT ![s] = [own |-> e, nonblock |-> TRUE, cloexec |-> TRUE]],
          log |-> Append(lg, Ev("socket", s))]
    ELSE IF r1 \notin {"EPROTONOSUPPORT", "EINVAL"}
    THEN [fd |-> NoFd, err |-> "socket", os |-> o, log |-> lg]
    ELSE LET r2 == SocketAnswer(o, f.s2) IN
         IF r2 # "nil"
         THEN [fd |-> NoFd, err |-> "socket", os |-> o, log |-> lg]
         ELSE LET s  == LowestFree(o)
                  \* syscall.CloseOnExec(s) under the fork lock
                  o1 == [o EXCEPT ![s] = [own |-> e, nonblock |-> FALSE, cloexec |-> TRUE]]
                  l1 == Append(lg, Ev("socket", s))
              IN IF f.nb # "ok"
                 THEN [fd |-> NoFd, err |-> "setnonblock",
                       os |-> SysClose(o1, s).os,
                       log |-> Append(Append(l1, Ev("setnonblock", s)), Ev("close", s))]
                 ELSE [fd |-> s, err |-> "nil",
                       os |-> [o1 EXCEPT ![s].nonblock = TRUE],
                       log |-> Append(l1, Ev("setnonblock", s))]

\* ------------------------------------------------------- socket options
\* setNoDelay: one setsockopt. Returns [err, log].
setNoDelay(fd, f, lg) ==
    [err |-> IF f.nodelay = "ok" THEN "nil" ELSE "setsockopt",
     log |-> Append(lg, Ev("setsockopt", fd))]

\* setKeepAlive: a duration d <= 0 is refused before any system call.
setKeepAlive(fd, d, f, lg) ==
    IF d <= 0
    THEN [err |-> "invalid time duration", log |-> lg]
    ELSE [err |-> IF f.keepalive = "ok" THEN "nil" ELSE "setsockopt",
          log |-> Append(lg, Ev("setsockopt", fd))]

\* `syscall.Close(p.fd)` followed by `return`: the field p.fd keeps its value.
CloseAndReturn(p, o, lg, err) ==
    Ret(p, SysClose(o, p.fd).os, Append(lg, Ev("close", p.fd)), err)

\* "if c.ReadTimeout > 0 { p.readTimeout = c.ReadTimeout }", and the same for writes
SetTimeouts(p, c) ==
    [p EXCEPT !.readTimeout  = IF c.ReadTimeout > 0 THEN c.ReadTimeout ELSE @,
              !.writeTimeout = IF c.WriteTimeout > 0 THEN c.WriteTimeout ELSE @]

\* ------------------------------------------------------------------- tcp
newTCP == [type |-> EndPointTCP, fd |-> NoFd, oldTermios |-> FALSE,
           readTimeout |-> 0, writeTimeout |-> 0]

tcpOpen(e, p, c, f, o, lg) ==
    IF f.resolve # "ok" THEN Ret(p, o, lg, "tcp: getTCPSockaddr") ELSE
    LET s  == sysSocket(e, o, lg, f)
        p1 == [p EXCEPT !.fd = s.fd]
    IN
    IF s.err # "nil" THEN Ret(p1, s.os, s.log, "tcp: sysSocket") ELSE
    LET nd == setNoDelay(p1.fd, f, s.log) IN
    IF nd.err # "nil" THEN CloseAndReturn(p1, s.os, nd.log, "tcp: setNoDelay") ELSE
    LET ka == setKeepAlive(p1.fd, c.KeepAlive, f, nd.log) IN
    IF ka.err # "nil" THEN CloseAndReturn(p1, s.os, ka.log, "tcp: setKeepAlive") ELSE
    LET l3 == Append(ka.log, Ev("connect", p1.fd)) IN
    IF f.connect # "ok"
    THEN CloseAndReturn(p1, s.os, l3, "tcp: Connect: connect: " \o f.connect) ELSE
    LET l4 == Append(l3, Ev("setnonblock", p1.fd)) IN
    IF f.nonblock # "ok" THEN CloseAndReturn(p1, s.os, l4, "tcp: SetNonblock") ELSE
    Ret(SetTimeouts(p1, c), s.os, l4, "nil")

\* Close of tcp, udp and unixsocket: the same three lines in each.
netClose(p, o, lg) ==
    IF p.fd # NoFd
    THEN Ret(p, SysClose(o, p.fd).os, Append(lg, Ev("close", p.fd)), "nil")
    ELSE Ret(p, o, lg, "nil")

\* Read and Write of tcp, udp and unixsocket: one system call on p.fd.
netRead(p, o, lg)  == Ret(p, o, Append(lg, Ev("read", p.fd)), "any")
netWrite(p, o, lg) == Ret(p, o, Append(lg, Ev("write", p.fd)), "any")

\* ------------------------------------------------------------ unixsocket
newUnixSocket == [type |-> EndPointUnix, fd |-> NoFd, oldTermios |-> FALSE,
                  readTimeout |-> 0, writeTimeout |-> 0]

\* getUnixSockaddr: net.ResolveUnixAddr knows unix, unixgram and unixpacket;
\* of these only "unix" is accepted.
getUnixSockaddr(network) ==
    IF network \notin {"unix", "unixgram", "unixpacket"} THEN "unknown network"
    ELSE IF network = "unix" THEN "nil" ELSE "only unix are supported"

unixsocketOpen(e, p, c, f, o, lg) ==
    IF getUnixSockaddr(c.Network) # "nil"
    THEN Ret(p, o, lg, "unixsocket: getUnixSockaddr") ELSE
    LET s  == sysSocket(e, o, lg, f)
        p1 == [p EXCEPT !.fd = s.fd]
    IN
    IF s.err # "nil" THEN Ret(p1, s.os, s.log, "unixsocket: sysSocket") ELSE
    LET l1 == Append(s.log, Ev("connect", p1.fd)) IN
    IF f.connect # "ok" THEN Ret(p1, s.os, l1, "tcp: Connect: connect: " \o f.connect) ELSE
    Ret(SetTimeouts(p1, c), s.os, l1, "nil")

\* ------------------------------------------------------------------- udp
newUDP == [type |-> EndPointUDP, fd |-> NoFd, oldTermios |-> FALSE,
           readTimeout |-> 0, writeTimeout |-> 0]

udpOpen(e, p, c, f, o, lg) ==
    IF f.resolve # "ok" THEN Ret(p, o, lg, "udp: getUDPSockaddr") ELSE
    LET s  == sysSocket(e, o, lg, f)
        p1 == [p EXCEPT !.fd = s.fd]
    IN
    IF s.err # "nil" THEN Ret(p1, s.os, s.log, "udp: sysSocket") ELSE
    Ret(SetTimeouts(p1, c), s.os, s.log, "nil")

\* ---------------------------------------------------------------- serial
newSerial == [type |-> EndPointSerial, fd |-> NoFd, oldTermios |-> FALSE,
              readTimeout |-> 0, writeTimeout |-> 0]

\* The keys of the rate table and of the character-size table.
baudRates == {50, 75, 110, 134, 150, 200, 300, 600, 1200, 1800, 2400, 4800,
              9600, 19200, 38400, 57600, 115200, 230400}
charSizes == {5, 6, 7, 8}

\* A translation that rejects nothing.
newTermiosLax(c) ==
    [err |-> "nil", speed |-> c.BaudRate, csize |-> c.DataBits,
     cstopb |-> (c.StopBits = 2), parenb |-> (c.Parity # PARITY_NONE),
     parodd |-> (c.Parity \in {PARITY_ODD, PARITY_MARK}),
     cmspar |-> (c.Parity \in {PARITY_MARK, PARITY_SPACE}),
     inpck |-> (c.Parity # PARITY_NONE), cread |-> TRUE, clocal |-> TRUE]

\* newTermios: the control flags as one field per bit group.
newTermios(c) ==
    LET none == [err |-> "nil", speed |-> 0, csize |-> 0, cstopb |-> FALSE,
                 parenb |-> FALSE, parodd |-> FALSE, cmspar |-> FALSE,
                 inpck |-> FALSE, cread |-> FALSE, clocal |-> FALSE]
    IN
    IF c.BaudRate \notin baudRates
    THEN [none EXCEPT !.err = "serial: unsupported baud rate"] ELSE
    LET t1 == [none EXCEPT !.speed = c.BaudRate] IN
    IF c.DataBits \notin charSizes
    THEN [t1 EXCEPT !.err = "serial: unsupported character size"] ELSE
    LET t2 == [t1 EXCEPT !.csize = c.DataBits] IN
    IF c.StopBits \notin {0, 1, 2}
    THEN [t2 EXCEPT !.err = "serial: unsupported stop bits"] ELSE
    LET t3 == [t2 EXCEPT !.cstopb = (c.StopBits = 2)] IN
    IF c.Parity \notin {PARITY_NONE, PARITY_ODD, PARITY_EVEN, PARITY_MARK, PARITY_SPACE}
    THEN [t3 EXCEPT !.err = "serial: unsupported parity"] ELSE
    LET t4 == CASE c.Parity = PARITY_NONE ->
                     [t3 EXCEPT !.parenb = FALSE, !.inpck = FALSE]
                [] c.Parity = PARITY_ODD ->
                     [t3 EXCEPT !.parenb = TRUE, !.parodd = TRUE, !.cmspar = FALSE, !.inpck = TRUE]
                [] c.Parity = PARITY_EVEN ->
                     [t3 EXCEPT !.parenb = TRUE, !.parodd = FALSE, !.cmspar = FALSE, !.inpck = TRUE]
                [] c.Parity = PARITY_MARK ->
                     [t3 EXCEPT !.parenb = TRUE, !.parodd = TRUE, !.cmspar = TRUE, !.inpck = TRUE]
                [] c.Parity = PARITY_SPACE ->
                     [t3 EXCEPT !.parenb = TRUE, !.parodd = FALSE, !.cmspar = TRUE, !.inpck = TRUE]
    IN [t4 EXCEPT !.cread = TRUE, !.clocal = TRUE]

\* backupTermios: tcgetattr; a failure is only logged and keeps p.oldTermios.
backupTermios(p, f, lg) ==
    [p   |-> IF f.tcget = "ok" THEN [p EXCEPT !.oldTermios = TRUE] ELSE p,
     log |-> Append(lg, Ev(IF f.tcget = "ok" THEN "tcgetattr" ELSE "tcgetattr: error", p.fd))]

\* setTermios: tcsetattr with the new attributes. Returns [err, log].
setTermios(p, f, lg) ==
    [err |-> IF f.tcset = "ok" THEN "nil" ELSE "serial: could not set setting",
     log |-> Append(lg, Ev("tcsetattr", p.fd))]

\* restoreTermios: tcsetattr with the captured attributes, when there are some.
\* A restoration that never touches the device.
restoreTermiosNever(p, f, lg) == [p |-> p, log |-> lg]

restoreTermios(p, f, lg) ==
    IF ~p.oldTermios THEN [p |-> p, log |-> lg]
    ELSE [p   |-> IF f.restore = "ok" THEN [p EXCEPT !.oldTermios = FALSE] ELSE p,
          log |-> Append(lg, Ev("restore", p.fd))]

\* enableRS485: nothing unless enabled, else one ioctl. Returns [err, log].
enableRS485(fd, config, f, lg) ==
    IF ~config.Enabled THEN [err |-> "nil", log |-> lg]
    ELSE [err |-> CASE f.rs485 = "ok"      -> "nil"
                    [] f.rs485 = "errno"   -> "SYS_IOCTL (RS485)"
                    [] f.rs485 = "nonzero" -> "serial: unknown error from SYS_IOCTL (RS485)",
          log |-> Append(lg, Ev("rs485", fd))]

\* A Close that releases the descriptor before it restores the attributes.
serialCloseFirst(p, f, o, lg) ==
    IF p.fd = NoFd THEN Ret(p, o, lg, "nil") ELSE
    LET cl == SysClose(o, p.fd)
        r  == restoreTermios(p, f, Append(lg, Ev("close", p.fd)))
    IN Ret([r.p EXCEPT !.fd = NoFd, !.oldTermios = FALSE], cl.os, r.log, cl.err)

\* serial.Close: nothing when p.fd is -1; else restoreTermios, syscall.Close,
\* p.fd = -1, p.oldTermios = nil.
serialClose(p, f, o, lg) ==
    IF p.fd = NoFd THEN Ret(p, o, lg, "nil") ELSE
    LET r  == restoreTermios(p, f, lg)
        cl == SysClose(o, r.p.fd)
    IN Ret([r.p EXCEPT !.fd = NoFd, !.oldTermios = FALSE],
           cl.os, Append(r.log, Ev("close", r.p.fd)), cl.err)

\* What the kernel answers to open(2) on the device: EMFILE when the table is full.
OpenAnswer(o, want) ==
    IF want = "ok" THEN (IF FreeFds(o) = {} THEN "EMFILE" ELSE "nil") ELSE want

\* f.opens: the answers to the successive attempts to open the device; an
\* interrupted attempt calls Open again and then returns its own err.
RECURSIVE serialOpen(_, _, _, _, _, _)
serialOpen(e, p, c, f, o, lg) ==
    LET r == OpenAnswer(o, Head(f.opens)) IN
    IF r = "EINTR"
    THEN LET inner == serialOpen(e, [p EXCEPT !.fd = NoFd], c,
                                 [f EXCEPT !.opens = Tail(@)], o,
                                 Append(lg, Ev("open", NoFd)))
         IN [inner EXCEPT !.err = "EINTR"]
    ELSE IF r \in {"ENFILE", "EMFILE"}
    THEN Ret([p EXCEPT !.fd = NoFd], o, Append(lg, Ev("open", NoFd)),
             "serial: open serial (too many file opened)")
    ELSE IF r # "nil"
    THEN Ret([p EXCEPT !.fd = NoFd], o, Append(lg, Ev("open", NoFd)), "serial: open serial")
    ELSE
    LET fd == LowestFree(o)
        o1 == [o EXCEPT ![fd] = [own |-> e, nonblock |-> TRUE, cloexec |-> TRUE]]
        p1 == [p EXCEPT !.fd = fd]
        l1 == Append(lg, Ev("open", fd))
        t  == newTermios(c)
    IN
    IF t.err # "nil" THEN Ret(p1, o1, l1, t.err) ELSE
    LET b  == backupTermios(p1, f, l1)
        st == setTermios(b.p, f, b.log)
    IN
    IF st.err # "nil"
    THEN Ret([b.p EXCEPT !.fd = NoFd, !.oldTermios = FALSE],
             SysClose(o1, b.p.fd).os, Append(st.log, Ev("close", b.p.fd)), st.err)
    ELSE
    LET rs == enableRS485(b.p.fd, c.RS485, f, st.log) IN
    IF rs.err # "nil"
    THEN [serialClose(b.p, f, o1, rs.log) EXCEPT !.err = rs.err]
    ELSE Ret([b.p EXCEPT
                !.readTimeout  = IF c.ReadTimeout > 0 THEN c.ReadTimeout
                                 ELSE DefaultReadTimeout,
                !.writeTimeout = IF c.WriteTimeout > 0 THEN c.WriteTimeout
                                 ELSE DefaultWriteTimeout],
             o1, rs.log, "nil")

\* serial Read and Write copy p.fd once (fd := p.fd) and issue every select,
\* read and write of the call on that number; with a zero timeout Read returns
\* before its first system call.
serialRead(p, o, lg) ==
    IF p.readTimeout <= 0 THEN Ret(p, o, lg, "serial: select timeout")
    ELSE Ret(p, o, Append(lg, Ev("read", p.fd)), "any")
serialWrite(p, o, lg) == Ret(p, o, Append(lg, Ev("write", p.fd)), "any")

\* ------------------------------------------------------- configurations
BaseConfig(t, a) ==
    [type |-> t, Address |-> a, Network |-> "unix", KeepAlive |-> 30,
     ReadTimeout |-> 0, WriteTimeout |-> 0,
     BaudRate |-> 9600, DataBits |-> 8, StopBits |-> 1, Parity |-> PARITY_NONE,
     RS485 |-> [Enabled |-> FALSE]]

\* The configurations the one-by-one runs draw from; no transport reads the
\* address of its configuration but to resolve or open it.
TCPConfigs ==
    {[BaseConfig(EndPointTCP, "a") EXCEPT !.KeepAlive = k, !.ReadTimeout = rt] :
        k \in {0, 30}, rt \in {0, 20}}
UDPConfigs ==
    {[BaseConfig(EndPointUDP, "a") EXCEPT !.ReadTimeout = rt] : rt \in {0, 20}}
UnixSocketConfigs ==
    {[BaseConfig(EndPointUnix, "a") EXCEPT !.Network = n] :
        n \in {"unix", "unixgram", "bogus"}}
SerialConfigs ==
    {[BaseConfig(EndPointSerial, "a") EXCEPT !.RS485 = [Enabled |-> en], !.ReadTimeout = rt] :
        en \in BOOLEAN, rt \in {0, 20}}
    \cup {[BaseConfig(EndPointSerial, "a") EXCEPT !.BaudRate = 1234],
          [BaseConfig(EndPointSerial, "a") EXCEPT !.DataBits = 9],
          [BaseConfig(EndPointSerial, "a") EXCEPT !.StopBits = 3],
          [BaseConfig(EndPointSerial, "a") EXCEPT !.StopBits = 2, !.Parity = PARITY_EVEN],
          [BaseConfig(EndPointSerial, "a") EXCEPT !.Parity = 7]}

\* A configuration whose Type() is none of the four the package declares.
UnknownConfigs == {BaseConfig(EndPointSerial + 1, "a")}

Configs ==
    TCPConfigs \cup UDPConfigs \cup UnixSocketConfigs \cup SerialConfigs
        \cup UnknownConfigs

\* The configurations the registry runs draw from: for every type and address
\* one that can be opened, and for TCP and Serial one whose Open must fail.
RegConfigs ==
    {BaseConfig(t, a) : t \in Types, a \in Names}
    \cup {[BaseConfig(EndPointTCP, "a") EXCEPT !.KeepAlive = 0],
          [BaseConfig(EndPointSerial, "a") EXCEPT !.BaudRate = 1234]}

\* Find and Delete read nothing of a configuration but its AddressName().
LookupConfigs == {BaseConfig(EndPointSerial, "a"), BaseConfig(EndPointTCP, "b")}

\* ------------------------------------------- answers of the environment
\* What the kernel and the resolver answer during one method call.
NoFault ==
    [resolve |-> "ok", s1 |-> "ok", s2 |-> "ok", nb |-> "ok", nodelay |-> "ok",
     keepalive |-> "ok", connect |-> "ok", nonblock |-> "ok",
     opens |-> <<"ok">>, tcget |-> "ok", tcset |-> "ok", rs485 |-> "ok",
     restore |-> "ok"]

SockFaults ==
    {NoFault,
     [NoFault EXCEPT !.s1 = "EACCES"],
     [NoFault EXCEPT !.s1 = "EINVAL"],
     [NoFault EXCEPT !.s1 = "EPROTONOSUPPORT"],
     [NoFault EXCEPT !.s1 = "EINVAL", !.s2 = "EACCES"],
     [NoFault EXCEPT !.s1 = "EINVAL", !.nb = "err"]}

\* The answers during Open of a socket transport: one refusal at a time.
NetFaults ==
    SockFaults
    \cup {[NoFault EXCEPT !.resolve = "err"],
          [NoFault EXCEPT !.nodelay = "err"],
          [NoFault EXCEPT !.keepalive = "err"],
          [NoFault EXCEPT !.connect = "EINPROGRESS"],
          [NoFault EXCEPT !.connect = "ECONNREFUSED"],
          [NoFault EXCEPT !.nonblock = "err"]}

\* The answers to the attempts to open the device: up to k interruptions, then
\* success or a refusal.
RECURSIVE OpenAnswers(_)
OpenAnswers(k) ==
    {<<"ok">>, <<"ENOENT">>, <<"ENFILE">>}
    \cup (IF k = 0 THEN {} ELSE {<<"EINTR">> \o t : t \in OpenAnswers(k - 1)})

\* The answers during Open of the serial transport: the device is refused, or
\* it opens and the attribute and RS-485 calls answer.
SerialFaults ==
    UNION {
      IF os_[Len(os_)] # "ok"
      THEN {[NoFault EXCEPT !.opens = os_]}
      ELSE UNION {
             {[NoFault EXCEPT !.opens = os_, !.tcget = g],
              [NoFault EXCEPT !.opens = os_, !.tcget = g, !.tcset = "err"]}
             \cup {[NoFault EXCEPT !.opens = os_, !.tcget = g, !.rs485 = r, !.restore = rs] :
                     r \in {"errno", "nonzero"}, rs \in {"ok", "err"}} :
             g \in {"ok", "err"}} :
      os_ \in OpenAnswers(MaxEintr)}

CloseFaults == {NoFault, [NoFault EXCEPT !.restore = "err"]}

OpenFaults(t) ==
    IF t = EndPointSerial THEN SerialFaults
    ELSE IF t \in NetTypes THEN NetFaults
    ELSE {NoFault}

\* The answers the registry runs draw from: all well, or one refusal.
RegFaults(t) ==
    IF t = EndPointSerial THEN {NoFault, [NoFault EXCEPT !.tcset = "err"]}
    ELSE {NoFault, [NoFault EXCEPT !.connect = "ECONNREFUSED"]}

\* -------------------------------------------------------------- factory
\* The nil EndPoint that newEndPoint returns for a type it does not know; a
\* method call on it panics.
NilEndPoint == [type |-> EndPointTCP - 1, fd |-> NoFd, oldTermios |-> FALSE,
                readTimeout |-> 0, writeTimeout |-> 0]

Panic == "panic: nil pointer dereference"

newEndPoint(c) ==
    CASE c.type = EndPointTCP    -> newTCP
      [] c.type = EndPointUDP    -> newUDP
      [] c.type = EndPointUnix   -> newUnixSocket
      [] c.type = EndPointSerial -> newSerial
      [] OTHER                   -> NilEndPoint

\* The method p.Open(c) of the dynamic type of p.
epOpen(e, p, c, f, o, lg) ==
    CASE p.type = EndPointTCP    -> tcpOpen(e, p, c, f, o, lg)
      [] p.type = EndPointUDP    -> udpOpen(e, p, c, f, o, lg)
      [] p.type = EndPointUnix   -> unixsocketOpen(e, p, c, f, o, lg)
      [] p.type = EndPointSerial -> serialOpen(e, p, c, f, o, lg)
      [] OTHER                   -> Ret(p, o, lg, Panic)

epClose(p, f, o, lg) ==
    IF p.type = EndPointSerial THEN serialClose(p, f, o, lg) ELSE netClose(p, o, lg)

epRead(p, o, lg) ==
    IF p.type = EndPointSerial THEN serialRead(p, o, lg) ELSE netRead(p, o, lg)

epWrite(p, o, lg) ==
    IF p.type = EndPointSerial THEN serialWrite(p, o, lg) ELSE netWrite(p, o, lg)

\* open: what Open returned ("none" before it has), close and io: the Close and
\* the Read/Write calls made so far, cerr: what the last Close returned,
\* nclose: the close(2) calls issued by the methods of the endpoint so far,
\* gone: the descriptor numbers they were issued on.
NoCalls == [open |-> "none", close |-> 0, io |-> 0, cerr |-> "none",
            nclose |-> 0, gone |-> {}]

CloseEvents(lg) == {i \in DOMAIN lg : lg[i].op = "close"}

\* The close(2) calls of a method call's log, added to the endpoint's account.
Tally(cs, lg) ==
    [cs EXCEPT !.nclose = @ + Cardinality(CloseEvents(lg)),
               !.gone = @ \cup {lg[i].fd : i \in CloseEvents(lg)}]

\* ------------------------------------------------------------- sync.Map
Absent == [ok |-> FALSE, slice |-> <<>>]

\* m.Load(key): the value and whether the key is present.
mLoad(m, key) == m[key]
\* m.Store(key, value)
mStore(m, key, value) == [m EXCEPT ![key] = [ok |-> TRUE, slice |-> value]]
\* m.Delete(key)
mDelete(m, key) == [m EXCEPT ![key] = Absent]

\* ------------------------------------------------------------- registry
\* A gate that lets every serial open through.
SerialGateOpen(ok) == "nil"

\* Open, serial branch: what the Load of the address name decides.
SerialGate(ok) == IF ok THEN "opening serial repeated is unsupported" ELSE "nil"

\* A store that forgets the loaded slice.
appendSliceFresh(ld, p) == <<p>>

\* Open, other branch: the slice stored for the address name.
appendSlice(ld, p) == IF ld.ok THEN Append(ld.slice, p) ELSE <<p>>

Find(c, m) ==
    LET ld == mLoad(m, c.Address) IN
    IF ld.ok THEN [slice |-> ld.slice, find |-> TRUE]
    ELSE [slice |-> <<>>, find |-> FALSE]

\* A Delete that empties the whole map.
DeleteAll(c, m) == [n \in Names |-> Absent]

\* m.Delete(c.AddressName())
Delete(c, m) == mDelete(m, c.Address)

\* ------------------------------------------------------------ the state
NoLoc == [c |-> BaseConfig(EndPointTCP, "a"), p |-> 0, ld |-> Absent,
          reg0 |-> [n \in Names |-> Absent]]

NoRes == [slice |-> <<>>, find |-> FALSE]

\* reg0: the registry as it was when the call began.
Returned(op, c, p, err, res, reg0) ==
    [op |-> op, c |-> c, p |-> p, err |-> err, res |-> res, reg0 |-> reg0]

\* No Read call has been made; n and err are the named results.
NoRead ==
    [pc |-> "idle", e |-> 0, fd |-> NoFd, len |-> 0, expireTime |-> 0,
     readLen |-> 0, hasData |-> FALSE, n |-> 0, err |-> "nil",
     eintr |-> 0, early |-> 0, exit |-> "none"]

\* No Write call has been made; b is the buffer, sent the bytes the descriptor
\* has accepted, in order.
NoWrite ==
    [pc |-> "idle", e |-> 0, fd |-> NoFd, b |-> <<>>, expireTime |-> 0,
     writeLen |-> 0, n |-> 0, err |-> "nil", eintr |-> 0, sent |-> <<>>,
     over |-> FALSE]

\* No SockAddr call has been made; depth counts the frames of the call.
NoSockAddr == [pc |-> "idle", e |-> 0, depth |-> 0]

QuietLine == [now |-> 0, pending |-> 0, delivered |-> 0, hup |-> FALSE]

Init ==
    /\ os = [fd \in FdNums |-> FreeDesc]
    /\ ep = <<>>
    /\ log = <<>>
    /\ calls = <<>>
    /\ reg = [n \in Names |-> Absent]
    /\ hist = [n \in Names |-> <<>>]
    /\ pc = [g \in Callers |-> "idle"]
    /\ loc = [g \in Callers |-> NoLoc]
    /\ last = Returned("none", NoLoc.c, 0, "nil", NoRes, NoLoc.reg0)
    /\ rd = NoRead
    /\ tty = QuietLine
    /\ wr = NoWrite
    /\ sa = NoSockAddr

\* ---------------------------------------- registry Open, step by step
\* Serial: p = newEndPoint(c); m.Load(c.AddressName()); a present entry ends the call
OpenSerialLoad(g, c) ==
    /\ pc[g] = "idle"
    /\ c.type = EndPointSerial
    /\ Len(ep) < MaxEP
    /\ ep' = Append(ep, newEndPoint(c))
    /\ log' = Append(log, <<>>)
    /\ calls' = Append(calls, NoCalls)
    /\ LET ld   == mLoad(reg, c.Address)
           gate == SerialGate(ld.ok)
           e    == Len(ep) + 1
       IN IF gate = "nil"
          THEN /\ loc' = [loc EXCEPT ![g] = [c |-> c, p |-> e, ld |-> ld, reg0 |-> reg]]
               /\ pc' = [pc EXCEPT ![g] = "sopen"]
               /\ UNCHANGED last
          ELSE /\ last' = Returned("Open", c, e, gate, NoRes, reg)
               /\ UNCHANGED <<pc, loc>>
    /\ UNCHANGED <<rd, tty, wr, sa, os, reg, hist>>

\* Serial: err = p.Open(c); an error ends the call
OpenSerialOpen(g) ==
    /\ pc[g] = "sopen"
    /\ \E f \in RegFaults(EndPointSerial) :
         LET e == loc[g].p
             r == epOpen(e, ep[e], loc[g].c, f, os, <<>>)
         IN /\ ep' = [ep EXCEPT ![e] = r.p]
            /\ log' = [log EXCEPT ![e] = r.log]
            /\ calls' = [calls EXCEPT ![e] = Tally([@ EXCEPT !.open = r.err], r.log)]
            /\ os' = r.os
            /\ IF r.err = "nil"
               THEN /\ pc' = [pc EXCEPT ![g] = "sstore"]
                    /\ UNCHANGED <<loc, last>>
               ELSE /\ pc' = [pc EXCEPT ![g] = "idle"]
                    /\ loc' = [loc EXCEPT ![g] = NoLoc]
                    /\ last' = Returned("Open", loc[g].c, e, r.err, NoRes, loc[g].reg0)
    /\ UNCHANGED <<rd, tty, wr, sa, reg, hist>>

\* Serial: m.Store(c.AddressName(), []EndPoint{p}); return
OpenSerialStore(g) ==
    /\ pc[g] = "sstore"
    /\ reg' = mStore(reg, loc[g].c.Address, <<loc[g].p>>)
    /\ hist' = [hist EXCEPT ![loc[g].c.Address] = Append(@, loc[g].p)]
    /\ pc' = [pc EXCEPT ![g] = "idle"]
    /\ loc' = [loc EXCEPT ![g] = NoLoc]
    /\ last' = Returned("Open", loc[g].c, loc[g].p, "nil", NoRes, loc[g].reg0)
    /\ UNCHANGED <<rd, tty, wr, sa, os, ep, log, calls>>

\* An Open of the other types that records the endpoint whose Open failed.
OpenNetOpenRecording(g, c) ==
    /\ pc[g] = "idle"
    /\ c.type \in NetTypes
    /\ Len(ep) < MaxEP
    /\ \E f \in RegFaults(c.type) :
         LET e == Len(ep) + 1
             r == epOpen(e, newEndPoint(c), c, f, os, <<>>)
         IN /\ ep' = Append(ep, r.p)
            /\ log' = Append(log, r.log)
            /\ calls' = Append(calls, Tally([NoCalls EXCEPT !.open = r.err], r.log))
            /\ os' = r.os
            /\ IF r.err = "nil"
               THEN /\ pc' = [pc EXCEPT ![g] = "nload"]
                    /\ loc' = [loc EXCEPT ![g] = [c |-> c, p |-> e, ld |-> Absent, reg0 |-> reg]]
                    /\ UNCHANGED <<last, reg, hist>>
               ELSE /\ last' = Returned("Open", c, e, r.err, NoRes, reg)
                    /\ reg' = mStore(reg, c.Address, <<e>>)
                    /\ hist' = [hist EXCEPT ![c.Address] = Append(@, e)]
                    /\ UNCHANGED <<pc, loc>>
    /\ UNCHANGED <<rd, tty, wr, sa>>

\* Other types: p = newEndPoint(c); err = p.Open(c); an error ends the call
OpenNetOpen(g, c) ==
    /\ pc[g] = "idle"
    /\ c.type \in NetTypes
    /\ Len(ep) < MaxEP
    /\ \E f \in RegFaults(c.type) :
         LET e == Len(ep) + 1
             r == epOpen(e, newEndPoint(c), c, f, os, <<>>)
         IN /\ ep' = Append(ep, r.p)
            /\ log' = Append(log, r.log)
            /\ calls' = Append(calls, Tally([NoCalls EXCEPT !.open = r.err], r.log))
            /\ os' = r.os
            /\ IF r.err = "nil"
               THEN /\ pc' = [pc EXCEPT ![g] = "nload"]
                    /\ loc' = [loc EXCEPT ![g] = [c |-> c, p |-> e, ld |-> Absent, reg0 |-> reg]]
                    /\ UNCHANGED last
               ELSE /\ last' = Returned("Open", c, e, r.err, NoRes, reg)
                    /\ UNCHANGED <<pc, loc>>
    /\ UNCHANGED <<rd, tty, wr, sa, reg, hist>>

\* Other types: s, ok := m.Load(c.AddressName())
OpenNetLoad(g) ==
    /\ pc[g] = "nload"
    /\ loc' = [loc EXCEPT ![g].ld = mLoad(reg, loc[g].c.Address)]
    /\ pc' = [pc EXCEPT ![g] = "nstore"]
    /\ UNCHANGED <<rd, tty, wr, sa, os, ep, log, calls, reg, hist, last>>

\* Other types: m.Store(c.AddressName(), append(slice, p)) or a new slice; return
OpenNetStore(g) ==
    /\ pc[g] = "nstore"
    /\ reg' = mStore(reg, loc[g].c.Address, appendSlice(loc[g].ld, loc[g].p))
    /\ hist' = [hist EXCEPT ![loc[g].c.Address] = Append(@, loc[g].p)]
    /\ pc' = [pc EXCEPT ![g] = "idle"]
    /\ loc' = [loc EXCEPT ![g] = NoLoc]
    /\ last' = Returned("Open", loc[g].c, loc[g].p, "nil", NoRes, loc[g].reg0)
    /\ UNCHANGED <<rd, tty, wr, sa, os, ep, log, calls>>

CallFind(g, c) ==
    /\ pc[g] = "idle"
    /\ last' = Returned("Find", c, 0, "nil", Find(c, reg), reg)
    /\ UNCHANGED <<rd, tty, wr, sa, os, ep, log, calls, reg, hist, pc, loc>>

CallDelete(g, c) ==
    /\ pc[g] = "idle"
    /\ reg' = Delete(c, reg)
    /\ hist' = [hist EXCEPT ![c.Address] = <<>>]
    /\ last' = Returned("Delete", c, 0, "nil", NoRes, reg)
    /\ UNCHANGED <<rd, tty, wr, sa, os, ep, log, calls, pc, loc>>

Step(g) ==
    \/ \E c \in RegConfigs : OpenSerialLoad(g, c)
    \/ OpenSerialOpen(g)
    \/ OpenSerialStore(g)
    \/ \E c \in RegConfigs : OpenNetOpen(g, c)
    \/ OpenNetLoad(g)
    \/ OpenNetStore(g)
    \/ \E c \in LookupConfigs : CallFind(g, c)
    \/ \E c \in LookupConfigs : CallDelete(g, c)

Next == \E g \in Callers : Step(g)

Spec == Init /\ [][Next]_vars

\* One call in flight at a time.
NoneInFlight == \A g \in Callers : pc[g] = "idle"

SeqNext == \E g \in Callers : (\A h \in Callers \ {g} : pc[h] = "idle") /\ Step(g)

SeqSpec == Init /\ [][SeqNext]_vars

\* ---------------------------------------------- endpoints, one by one
\* The factory: p = newEndPoint(c); err = p.Open(c)
FactoryOpen(c, f) ==
    /\ Len(ep) < MaxEP
    /\ LET e == Len(ep) + 1
           r == epOpen(e, newEndPoint(c), c, f, os, <<>>)
       IN /\ ep' = Append(ep, r.p)
          /\ log' = Append(log, r.log)
          /\ calls' = Append(calls, Tally([NoCalls EXCEPT !.open = r.err], r.log))
          /\ os' = r.os
    /\ UNCHANGED <<rd, tty, wr, sa, reg, hist, pc, loc, last>>

CallClose(e, f) ==
    /\ ep[e] # NilEndPoint
    /\ calls[e].close < MaxClose
    /\ LET r == epClose(ep[e], f, os, <<>>)
       IN /\ ep' = [ep EXCEPT ![e] = r.p]
          /\ log' = [log EXCEPT ![e] = r.log]
          /\ calls' = [calls EXCEPT
                         ![e] = Tally([@ EXCEPT !.close = @ + 1, !.cerr = r.err], r.log)]
          /\ os' = r.os
    /\ UNCHANGED <<rd, tty, wr, sa, reg, hist, pc, loc, last>>

CallRead(e) ==
    /\ ep[e] # NilEndPoint
    /\ calls[e].io < MaxIo
    /\ LET r == epRead(ep[e], os, <<>>)
       IN /\ log' = [log EXCEPT ![e] = r.log]
          /\ calls' = [calls EXCEPT ![e].io = @ + 1]
    /\ UNCHANGED <<rd, tty, wr, sa, os, ep, reg, hist, pc, loc, last>>

CallWrite(e) ==
    /\ ep[e] # NilEndPoint
    /\ calls[e].io < MaxIo
    /\ LET r == epWrite(ep[e], os, <<>>)
       IN /\ log' = [log EXCEPT ![e] = r.log]
          /\ calls' = [calls EXCEPT ![e].io = @ + 1]
    /\ UNCHANGED <<rd, tty, wr, sa, os, ep, reg, hist, pc, loc, last>>

LifeNext ==
    \/ \E c \in Configs : \E f \in OpenFaults(c.type) : FactoryOpen(c, f)
    \/ \E e \in DOMAIN ep : \E f \in CloseFaults : CallClose(e, f)
    \/ \E e \in DOMAIN ep : CallRead(e)
    \/ \E e \in DOMAIN ep : CallWrite(e)

LifeSpec == Init /\ [][LifeNext]_vars

\* ------------------------------------------------------ registry claims
SerialCount(n) ==
    Cardinality({i \in DOMAIN hist[n] : ep[hist[n][i]].type = EndPointSerial})

InSlice(e, n) == \E j \in DOMAIN reg[n].slice : reg[n].slice[j] = e

\* C1: of the serial opens of one device path that run against an entry-free
\* registry, concurrently or not, at most one succeeds: no path ever has two
\* serial endpoints whose Open returned nil since the path was last deleted.
C1_SerialOpenAtomic == \A n \in Names : SerialCount(n) <= 1

\* C2: once every call has returned, each TCP/UDP/Unix endpoint whose Open
\* returned nil for an address name (only such endpoints were opened for it)
\* is in the registry list of that name.
C2_NoLostAppend ==
    NoneInFlight =>
        \A n \in Names :
            SerialCount(n) = 0 => \A i \in DOMAIN hist[n] : InSlice(hist[n][i], n)

\* C3: sequentially, an Open with a Serial config whose address name had a
\* registry entry when the call began returns an error, has issued no system
\* call on the new endpoint (its descriptor is still -1), has changed no
\* descriptor and leaves the registry as it was.
C3_SerialDuplicateRejected ==
    (last.op = "Open" /\ last.c.type = EndPointSerial
        /\ last.reg0[last.c.Address].ok)
    => /\ last.err # "nil"
       /\ ep[last.p].fd = NoFd
       /\ log[last.p] = <<>>
       /\ \A fd \in FdNums : os[fd].own # last.p
       /\ reg = last.reg0

C3_Witness ==
    /\ last.op = "Open" /\ last.c.type = EndPointSerial
    /\ last.reg0[last.c.Address].ok
    /\ \E e \in DOMAIN ep : ep[e].type = EndPointSerial /\ ep[e].fd # NoFd

\* C4: sequentially, the registry list of an address name is the sequence of
\* the endpoints whose Open returned nil for that name since its last Delete,
\* in the order of the opens, and Find reports found exactly when there is one.
C4_FindListsOpens ==
    NoneInFlight =>
        /\ \A c \in RegConfigs :
              Find(c, reg) = [slice |-> hist[c.Address], find |-> hist[c.Address] # <<>>]
        /\ last.op = "Find" =>
              last.res = [slice |-> hist[last.c.Address],
                          find |-> hist[last.c.Address] # <<>>]

C4_Witness ==
    /\ last.op = "Find" /\ last.res.find
    /\ Len(last.res.slice) = 2
    /\ last.res.slice[1] # last.res.slice[2]
    /\ \A i \in 1..2 : ep[last.res.slice[i]].type \in NetTypes

\* ------------------------------------------------ serial Read, step by step
Min(a, b) == IF a < b THEN a ELSE b

ReadConfigs ==
    {[BaseConfig(EndPointSerial, "a") EXCEPT !.ReadTimeout = t] : t \in 0..2}

Reading == rd.pc \in {"loop", "select", "read"}

ReadLeaves == <<os, ep, log, calls, reg, hist, pc, loc, last, wr, sa>>

\* The factory opens the one serial endpoint of the run.
ReadOpen(c) ==
    /\ ep = <<>>
    /\ FactoryOpen(c, NoFault)

\* fd := p.fd; expireTime := time.Now().Add(p.readTimeout)
ReadBegin(e, len) ==
    /\ rd.pc \in {"idle", "done"}
    /\ ep[e].type = EndPointSerial
    /\ ep[e].fd # NoFd
    /\ rd' = [NoRead EXCEPT !.pc = "loop", !.e = e, !.fd = ep[e].fd, !.len = len,
                            !.expireTime = tty.now + ep[e].readTimeout,
                            !.early = tty.pending]
    /\ UNCHANGED <<tty, ReadLeaves>>

\* remainTime := expireTime.Sub(time.Now()); if remainTime <= 0 the call
\* returns the timeout error, whatever has been read.
ReadRemain ==
    /\ rd.pc = "loop"
    /\ LET remainTime == rd.expireTime - tty.now
       IN rd' = IF remainTime <= 0
                THEN [rd EXCEPT !.pc = "done", !.err = "serial: select timeout",
                                !.exit = "deadline"]
                ELSE [rd EXCEPT !.pc = "select"]
    /\ UNCHANGED <<tty, ReadLeaves>>

Ready == tty.pending > 0 \/ tty.hup

\* A not-ready return that always reports success with the count so far.
selectNotReadyNil(r) ==
    [r EXCEPT !.pc = "done", !.n = r.readLen, !.err = "nil", !.exit = "notready"]

\* if nFd == 0 || !fdisset(fd, &rfds): return readLen, nil when hasData, the
\* timeout error otherwise.
selectNotReady(r) ==
    IF r.hasData
    THEN [r EXCEPT !.pc = "done", !.n = r.readLen, !.err = "nil", !.exit = "notready"]
    ELSE [r EXCEPT !.pc = "done", !.err = "serial: select timeout", !.exit = "notready"]

\* nFd, err = syscall.Select(fd+1, &rfds, nil, nil, &timeout)
ReadSelect ==
    /\ rd.pc = "select"
    /\ \/ /\ rd.eintr < MaxEintr
          /\ rd' = [rd EXCEPT !.pc = "loop", !.err = "EINTR", !.eintr = @ + 1]
       \/ rd' = [rd EXCEPT !.pc = "done", !.err = "serial: could not select",
                           !.exit = "select"]
       \/ /\ Ready
          /\ rd' = [rd EXCEPT !.pc = "read", !.err = "nil"]
       \/ /\ ~Ready
          /\ tty.now >= rd.expireTime
          /\ rd' = selectNotReady(rd)
    /\ UNCHANGED <<tty, ReadLeaves>>

\* n, err = syscall.Read(fd, b[readLen:])
ReadSyscall ==
    /\ rd.pc = "read"
    /\ \/ /\ rd.eintr < MaxEintr
          /\ rd' = [rd EXCEPT !.pc = "loop", !.n = -1, !.err = "EINTR", !.eintr = @ + 1]
          /\ UNCHANGED tty
       \/ /\ rd' = [rd EXCEPT !.pc = "done", !.n = -1, !.err = "serial: could not read",
                              !.exit = "read"]
          /\ UNCHANGED tty
       \/ LET k == Min(tty.pending, rd.len - rd.readLen)
          IN /\ rd' = IF k > 0
                      THEN [rd EXCEPT !.pc = "loop", !.n = k, !.err = "nil",
                                      !.hasData = TRUE, !.readLen = @ + k]
                      ELSE [rd EXCEPT !.pc = "done", !.n = 0,
                                      !.err = "serial: read no data", !.exit = "nodata"]
             /\ tty' = [tty EXCEPT !.pending = @ - k]
    /\ UNCHANGED ReadLeaves

\* The clock moves on between any two steps.
Tick ==
    /\ tty.now < MaxTime
    /\ tty' = [tty EXCEPT !.now = @ + 1]
    /\ UNCHANGED <<rd, ReadLeaves>>

\* The line delivers a burst of k bytes; early counts the bytes that were on
\* the line before the deadline of the call in flight.
Produce(k) ==
    /\ ~tty.hup
    /\ tty.delivered + k <= MaxBytes
    /\ tty' = [tty EXCEPT !.pending = @ + k, !.delivered = @ + k]
    /\ rd' = IF Reading /\ tty.now < rd.expireTime
             THEN [rd EXCEPT !.early = @ + k] ELSE rd
    /\ UNCHANGED ReadLeaves

\* The line hangs up: the descriptor reads as ready with nothing to deliver.
Hangup ==
    /\ ~tty.hup
    /\ tty' = [tty EXCEPT !.hup = TRUE]
    /\ UNCHANGED <<rd, ReadLeaves>>

ReadNext ==
    \/ \E c \in ReadConfigs : ReadOpen(c)
    \/ \E e \in DOMAIN ep : \E len \in 0..MaxBuf : ReadBegin(e, len)
    \/ ReadRemain
    \/ ReadSelect
    \/ ReadSyscall
    \/ Tick
    \/ \E k \in 1..MaxBytes : Produce(k)
    \/ Hangup

ReadSpec == Init /\ [][ReadNext]_vars

\* ----------------------------------------------- serial Write, step by step
WriteConfigs ==
    {[BaseConfig(EndPointSerial, "a") EXCEPT !.WriteTimeout = t] : t \in 0..2}

Buffers == {[i \in 1..len |-> i] : len \in 0..MaxBuf}

WriteLeaves == <<os, ep, log, calls, reg, hist, pc, loc, last, rd, sa>>

\* The factory opens the one serial endpoint of the run.
WriteOpen(c) ==
    /\ ep = <<>>
    /\ FactoryOpen(c, NoFault)

\* expireTime := time.Now().Add(p.writeTimeout); bLen := len(b); fd := p.fd
WriteBegin(e, b) ==
    /\ wr.pc \in {"idle", "done"}
    /\ ep[e].type = EndPointSerial
    /\ ep[e].fd # NoFd
    /\ wr' = [NoWrite EXCEPT !.pc = "write", !.e = e, !.fd = ep[e].fd, !.b = b,
                             !.expireTime = tty.now + ep[e].writeTimeout]
    /\ UNCHANGED <<tty, WriteLeaves>>

\* A slice expression that always hands over the whole buffer.
writeSliceAll(b, writeLen) == b

\* b[writeLen:]
writeSlice(b, writeLen) == SubSeq(b, writeLen + 1, Len(b))

\* An accounting that returns the sum as the count without the overflow test.
afterWriteUnchecked(w) ==
    LET writeLen == w.writeLen + w.n IN
    IF writeLen >= Len(w.b)
    THEN [w EXCEPT !.pc = "done", !.writeLen = writeLen, !.n = writeLen, !.err = "nil"]
    ELSE [w EXCEPT !.pc = "remain", !.writeLen = writeLen]

\* writeLen += n; return writeLen, nil when it equals bLen, the overflow error
\* when it exceeds bLen, else wait for the descriptor.
afterWrite(w) ==
    LET writeLen == w.writeLen + w.n IN
    IF writeLen = Len(w.b)
    THEN [w EXCEPT !.pc = "done", !.writeLen = writeLen, !.n = writeLen, !.err = "nil"]
    ELSE IF writeLen > Len(w.b)
    THEN [w EXCEPT !.pc = "done", !.writeLen = writeLen,
                   !.err = "serial: write overflow"]
    ELSE [w EXCEPT !.pc = "remain", !.writeLen = writeLen]

\* n, err = syscall.Write(fd, b[writeLen:]): the descriptor accepts up to
\* MaxChunk bytes of the slice; a failed call returns -1 as the count. A
\* negative writeLen makes the slice expression panic. An over-reporting
\* descriptor returns one more than it accepted.
WriteSyscall ==
    /\ wr.pc = "write"
    /\ \/ /\ wr.writeLen < 0
          /\ wr' = [wr EXCEPT !.pc = "panic"]
       \/ /\ wr.writeLen >= 0
          /\ \/ /\ wr.eintr < MaxEintr
                /\ wr' = afterWrite([wr EXCEPT !.n = -1, !.err = "EINTR", !.eintr = @ + 1])
             \/ wr' = [wr EXCEPT !.pc = "done", !.n = -1, !.err = "serial: could not write"]
             \/ LET slice == writeSlice(wr.b, wr.writeLen)
                    most  == Min(Len(slice), MaxChunk)
                IN \E k \in (IF most = 0 THEN {0} ELSE 1..most) : \E o \in {0, 1} :
                      wr' = afterWrite([wr EXCEPT !.n = k + o, !.err = "nil",
                                                 !.sent = @ \o SubSeq(slice, 1, k),
                                                 !.over = @ \/ o = 1])
    /\ UNCHANGED <<tty, WriteLeaves>>

\* remainTime := expireTime.Sub(time.Now()); if remainTime <= 0 the call
\* returns the timeout error.
WriteRemain ==
    /\ wr.pc = "remain"
    /\ LET remainTime == wr.expireTime - tty.now
       IN wr' = IF remainTime <= 0
                THEN [wr EXCEPT !.pc = "done", !.err = "serial: select timeout"]
                ELSE [wr EXCEPT !.pc = "select"]
    /\ UNCHANGED <<tty, WriteLeaves>>

\* nFd, err = syscall.Select(fd+1, nil, &wfds, nil, &timeout)
WriteSelect ==
    /\ wr.pc = "select"
    /\ \/ /\ wr.eintr < MaxEintr
          /\ wr' = [wr EXCEPT !.pc = "remain", !.err = "EINTR", !.eintr = @ + 1]
       \/ wr' = [wr EXCEPT !.pc = "done", !.err = "serial: could not select"]
       \/ wr' = [wr EXCEPT !.pc = "write", !.err = "nil"]
       \/ /\ tty.now >= wr.expireTime
          /\ wr' = [wr EXCEPT !.pc = "done", !.err = "serial: select timeout"]
    /\ UNCHANGED <<tty, WriteLeaves>>

WriteNext ==
    \/ \E c \in WriteConfigs : WriteOpen(c)
    \/ \E e \in DOMAIN ep : \E b \in Buffers : WriteBegin(e, b)
    \/ WriteSyscall
    \/ WriteRemain
    \/ WriteSelect
    \/ Tick

WriteSpec == Init /\ [][WriteNext]_vars

\* The same calls under a clock that reaches every deadline: a call begins only
\* when its deadline lies within the clock's range, time advances, and a
\* system call or clock reading that can be made is made.
WriteBeginTimed(e, b) ==
    /\ tty.now + ep[e].writeTimeout <= MaxTime
    /\ WriteBegin(e, b)

WriteLiveNext ==
    \/ \E c \in WriteConfigs : WriteOpen(c)
    \/ \E e \in DOMAIN ep : \E b \in Buffers : WriteBeginTimed(e, b)
    \/ WriteSyscall
    \/ WriteRemain
    \/ WriteSelect
    \/ Tick

WriteLiveSpec ==
    /\ Init
    /\ [][WriteLiveNext]_vars
    /\ WF_vars(Tick)
    /\ WF_vars(WriteSyscall)
    /\ WF_vars(WriteRemain)
    /\ WF_vars(WriteSelect)

\* ------------------------------------------------------------- SockAddr
AddrLeaves == <<os, ep, log, calls, reg, hist, pc, loc, last, rd, tty, wr>>

AddrOpen(c, f) == FactoryOpen(c, f)

\* p.SockAddr(): tcp, udp and serial return at once; the body of
\* unixsocket.SockAddr is the call p.SockAddr() again.
SockAddrCall(e) ==
    /\ sa.pc # "running"
    /\ ep[e] # NilEndPoint
    /\ sa' = IF ep[e].type = EndPointUnix
             THEN [pc |-> "running", e |-> e, depth |-> 1]
             ELSE [pc |-> "returned", e |-> e, depth |-> 0]
    /\ UNCHANGED AddrLeaves

\* return p.SockAddr() in unixsocket.SockAddr: one more frame, until the
\* stack is exhausted and the runtime aborts the program.
SockAddrRecurse ==
    /\ sa.pc = "running"
    /\ sa' = IF sa.depth < MaxStack
             THEN [sa EXCEPT !.depth = @ + 1]
             ELSE [sa EXCEPT !.pc = "stack overflow"]
    /\ UNCHANGED AddrLeaves

AddrNext ==
    \/ \E c \in Configs : \E f \in RegFaults(c.type) : AddrOpen(c, f)
    \/ \E e \in DOMAIN ep : SockAddrCall(e)
    \/ SockAddrRecurse

AddrSpec == Init /\ [][AddrNext]_vars

\* ------------------------------------------- one serial endpoint's lifecycle
SerialOpen(c, f) ==
    /\ ep = <<>>
    /\ FactoryOpen(c, f)

SerialNext ==
    \/ \E c \in SerialConfigs : \E f \in SerialFaults : SerialOpen(c, f)
    \/ \E e \in DOMAIN ep : \E f \in CloseFaults : CallClose(e, f)
    \/ \E e \in DOMAIN ep : CallRead(e)
    \/ \E e \in DOMAIN ep : CallWrite(e)

SerialSpec == Init /\ [][SerialNext]_vars

\* ----------------------------------------------------- lifecycle claims
Holds(e) == \E fd \in FdNums : os[fd].own = e

HasEvent(lg, op) == \E i \in DOMAIN lg : lg[i].op = op

\* The errors serial Open returns for the causes C7 lists.
SerialUnwindErrors ==
    {"serial: unsupported baud rate", "serial: unsupported character size",
     "serial: unsupported stop bits", "serial: unsupported parity",
     "serial: could not set setting", "SYS_IOCTL (RS485)",
     "serial: unknown error from SYS_IOCTL (RS485)"}

\* C5: for every transport, once Open has returned nil and Close has been
\* called twice, the methods of the endpoint have issued exactly one close(2);
\* the second Close issued none and returned nil.
C5_CloseIdempotent ==
    \A e \in DOMAIN ep :
        (calls[e].open = "nil" /\ calls[e].close = 2)
        => /\ calls[e].nclose = 1
           /\ ~HasEvent(log[e], "close")
           /\ calls[e].cerr = "nil"

\* C6: for every transport, once Close has returned the descriptor field is -1,
\* and no later Read or Write issues a system call on a descriptor number the
\* endpoint has released.
C6_ClosedIsUnopened ==
    \A e \in DOMAIN ep :
        calls[e].close >= 1
        => /\ ep[e].fd = NoFd
           /\ \A i \in DOMAIN log[e] :
                 log[e][i].op \in {"read", "write"} => log[e][i].fd \notin calls[e].gone

\* C7: when serial Open has opened the device and returns an error for an
\* unsupported attribute, a rejected attribute set or a failed RS-485 ioctl,
\* the endpoint holds no descriptor and its descriptor field is -1.
C7_SerialOpenUnwinds ==
    \A e \in DOMAIN ep :
        (ep[e].type = EndPointSerial /\ calls[e].open \in SerialUnwindErrors
            /\ calls[e].close = 0)
        => /\ ~Holds(e)
           /\ ep[e].fd = NoFd

\* C8: when Open of a TCP or Unix-domain endpoint returns an error after the
\* socket was created, the socket has been closed exactly once, the endpoint
\* holds no descriptor and its descriptor field is -1, and a later Close
\* issues no close(2).
C8_NetOpenUnwinds ==
    \A e \in DOMAIN ep :
        (ep[e].type \in {EndPointTCP, EndPointUnix}
            /\ calls[e].open \notin {"none", "nil"}
            /\ calls[e].open \notin {"tcp: getTCPSockaddr", "unixsocket: getUnixSockaddr",
                                     "tcp: sysSocket", "unixsocket: sysSocket"})
        => /\ calls[e].nclose = 1
           /\ ~Holds(e)
           /\ ep[e].fd = NoFd

\* ---------------------------------------------------- serial Read claims
ReadIoErrors == {"serial: could not select", "serial: could not read"}

\* C9: a serial Read call that has read at least one byte never returns the
\* timeout error; when the timeout ends the call, at the top of the loop or
\* by the readiness wait, it returns the bytes accumulated with a nil error.
C9_PartialNotTimeout ==
    (rd.pc = "done" /\ rd.hasData)
    => /\ rd.err # "serial: select timeout"
       /\ rd.exit \in {"deadline", "notready"} => (rd.n = rd.readLen /\ rd.err = "nil")

\* C10: a serial Read call with a buffer of length L > 0, to which the line
\* has delivered at least L bytes before the deadline, which has filled the
\* buffer and which met no I/O error, returns L and a nil error, also when
\* more bytes are pending on the line.
C10_FullBufferReturns ==
    (rd.pc = "done" /\ rd.len > 0 /\ rd.early >= rd.len /\ rd.readLen = rd.len
        /\ ~tty.hup /\ rd.err \notin ReadIoErrors)
    => (rd.n = rd.len /\ rd.err = "nil")

\* C11: a serial Read call with a non-empty buffer, during which no byte was
\* on the line before the deadline, the line did not hang up and no system
\* call failed, returns the timeout error; and no serial Read call returns a
\* nil error with a count of zero.
C11_NoDataTimesOut ==
    /\ (rd.pc = "done" /\ rd.len > 0 /\ rd.early = 0 /\ ~tty.hup
            /\ rd.err \notin ReadIoErrors)
       => rd.err = "serial: select timeout"
    /\ (rd.pc = "done" /\ rd.err = "nil") => rd.n > 0

C11_Witness ==
    /\ rd.pc = "done" /\ rd.len > 0 /\ rd.early = 0 /\ ~tty.hup
    /\ tty.delivered = 0
    /\ rd.exit = "notready" /\ rd.err = "serial: select timeout"

\* --------------------------------------------------- serial Write claims
WriteIoErrors == {"serial: could not write", "serial: could not select"}

\* C12: a serial Write call that was not interrupted, met no failed system
\* call, whose descriptor reported its counts truthfully and became writable
\* before the deadline after every partial write, returns len(b) and a nil
\* error, and the bytes the descriptor accepted are b, each once and in order.
C12_WriteSendsAll ==
    (wr.pc = "done" /\ wr.eintr = 0 /\ ~wr.over /\ wr.err \notin WriteIoErrors
        /\ tty.now < wr.expireTime)
    => (wr.n = Len(wr.b) /\ wr.err = "nil" /\ wr.sent = wr.b)

C12_Witness ==
    /\ wr.pc = "done" /\ wr.eintr = 0 /\ ~wr.over /\ tty.now < wr.expireTime
    /\ Len(wr.b) = MaxBuf /\ MaxChunk < MaxBuf
    /\ wr.n = Len(wr.b) /\ wr.err = "nil" /\ wr.sent = wr.b

\* C13: a serial Write call never returns a nil error with a count larger
\* than len(b); a call whose cumulative written length exceeds len(b) returns
\* the overflow error.
C13_WriteNeverOverCounts ==
    wr.pc = "done"
    => /\ wr.err = "nil" => wr.n <= Len(wr.b)
       /\ wr.writeLen > Len(wr.b) => wr.err = "serial: write overflow"

C13_Witness ==
    /\ wr.pc = "done" /\ wr.writeLen > Len(wr.b)
    /\ wr.err = "serial: write overflow"

\* ------------------------------------------------------ transport Open claims
\* C14: when the device open of serial Open was interrupted and then
\* succeeded, and the attribute, RS-485 and timeout steps succeeded (the
\* endpoint holds the device and its timeouts are set), Open has returned nil.
C14_EintrNotSurfaced ==
    \A e \in DOMAIN ep :
        (ep[e].type = EndPointSerial /\ calls[e].close = 0 /\ calls[e].io = 0
            /\ HasEvent(log[e], "open") /\ log[e][1].fd = NoFd
            /\ Holds(e) /\ ep[e].fd # NoFd /\ ep[e].readTimeout > 0)
        => calls[e].open = "nil"

\* C15: a TCP Open with KeepAlive = 0 whose address resolution, socket
\* creation and connect succeed returns nil with the endpoint holding its
\* socket.
C15_KeepAliveZeroDisabled ==
    (last.op = "Open" /\ last.c.type = EndPointTCP /\ last.c.KeepAlive = 0
        /\ last.err \notin {"tcp: getTCPSockaddr", "tcp: sysSocket",
                            "tcp: Connect: connect: ECONNREFUSED"})
    => (last.err = "nil" /\ ep[last.p].fd # NoFd /\ Holds(last.p))

\* C16: TCP Open never returns the in-progress status of connect as its error.
C16_InProgressTolerated ==
    \A e \in DOMAIN ep :
        ep[e].type = EndPointTCP => calls[e].open # "tcp: Connect: connect: EINPROGRESS"

\* C17: the factory Open of a configuration of an unknown type returns an
\* error value; it does not panic.
C17_UnknownTypeIsError ==
    \A e \in DOMAIN ep :
        ep[e].type \notin Types => calls[e].open \notin {"none", "nil", Panic}

\* C18: a SockAddr call on a Unix-domain endpoint does not exhaust the stack:
\* it is running or has returned.
C18_SockAddrReturns ==
    (sa.pc # "idle" /\ ep[sa.e].type = EndPointUnix) => sa.pc \in {"running", "returned"}

\* ------------------------------------------------------- registry claims
\* C19: every registry entry that contains a Serial endpoint has length 1.
C19_SerialEntryAlone ==
    \A n \in Names :
        (\E j \in DOMAIN reg[n].slice : ep[reg[n].slice[j]].type = EndPointSerial)
        => Len(reg[n].slice) = 1

\* C20: a Delete call leaves no entry under the address name of its config
\* (Find reports not-found), leaves every other entry as it was, and changes
\* no descriptor and no endpoint.
C20_DeleteFrame ==
    [][(last' # last /\ last'.op = "Delete")
       => /\ ~Find(last'.c, reg').find
          /\ \A n \in Names \ {last'.c.Address} : reg'[n] = reg[n]
          /\ os' = os
          /\ ep' = ep]_vars

C20_Witness ==
    /\ last.op = "Delete"
    /\ last.reg0[last.c.Address].ok
    /\ ~reg[last.c.Address].ok
    /\ \E n \in Names \ {last.c.Address} : reg[n].ok
    /\ \E j \in DOMAIN last.reg0[last.c.Address].slice :
          LET e == last.reg0[last.c.Address].slice[j]
          IN ep[e].type = EndPointSerial /\ ep[e].fd # NoFd /\ Holds(e)

\* -------------------------------------------------- serial lifecycle claims
\* C21: a Close call on a serial endpoint that holds a descriptor issues, in
\* this order, the restoration of the captured attributes (only when some
\* were captured) and the close of the descriptor, and leaves the descriptor
\* field -1 and no captured attributes, whatever the restoration answered.
C21_SerialCloseOrder ==
    [][\A e \in DOMAIN ep :
         (ep[e].type = EndPointSerial /\ ep[e].fd # NoFd
             /\ calls'[e].close = calls[e].close + 1)
         => /\ log'[e] = (IF ep[e].oldTermios THEN <<Ev("restore", ep[e].fd)>> ELSE <<>>)
                             \o <<Ev("close", ep[e].fd)>>
            /\ os'[ep[e].fd].own = 0
            /\ ep'[e].fd = NoFd
            /\ ~ep'[e].oldTermios]_vars

C21_Witness ==
    \E e \in DOMAIN ep :
        /\ ep[e].type = EndPointSerial /\ calls[e].open = "nil" /\ calls[e].close = 1
        /\ log[e] = <<Ev("restore", 0), Ev("close", 0)>>
        /\ ep[e].fd = NoFd /\ ~ep[e].oldTermios /\ ~Holds(e)

Rs485Errors == {"SYS_IOCTL (RS485)", "serial: unknown error from SYS_IOCTL (RS485)"}

\* C22: when serial Open returns the error of the attribute set, the call has
\* closed the descriptor last and restored nothing; when it returns the error
\* of the RS-485 ioctl, the call has closed the descriptor last and, exactly
\* when attributes were captured, restored them just before; in both cases
\* the descriptor field is -1, no attributes are retained and no descriptor
\* is held.
C22_OpenFailureRestoration ==
    \A e \in DOMAIN ep :
        (ep[e].type = EndPointSerial /\ calls[e].close = 0 /\ calls[e].io = 0)
        => LET lg == log[e]
               n  == Len(lg)
           IN /\ calls[e].open = "serial: could not set setting"
                 => /\ ~HasEvent(lg, "restore")
                    /\ lg[n].op = "close" /\ lg[n - 1].op = "tcsetattr"
                    /\ calls[e].nclose = 1
                    /\ ep[e].fd = NoFd /\ ~ep[e].oldTermios /\ ~Holds(e)
              /\ calls[e].open \in Rs485Errors
                 => /\ lg[n].op = "close"
                    /\ IF HasEvent(lg, "tcgetattr")
                       THEN lg[n - 1].op = "restore" ELSE lg[n - 1].op = "rs485"
                    /\ calls[e].nclose = 1
                    /\ ep[e].fd = NoFd /\ ~ep[e].oldTermios /\ ~Holds(e)

C22_Witness ==
    \E e \in DOMAIN ep :
        /\ ep[e].type = EndPointSerial /\ calls[e].close = 0 /\ calls[e].io = 0
        /\ calls[e].open \in Rs485Errors
        /\ HasEvent(log[e], "restore")
        /\ ep[e].fd = NoFd /\ ~Holds(e)

\* ------------------------------------------------ interruption claims
\* C23: a serial Write call is not ended by an interrupted system call: it
\* does not panic and does not return the interruption as its error.
C23_InterruptsRetried ==
    /\ wr.pc # "panic"
    /\ wr.pc = "done" => wr.err # "EINTR"

\* C24: every serial Write call eventually returns.
C24_WriteReturns == (wr.pc = "write") ~> (wr.pc = "done")

\* ------------------------------------------------- sysSocket, call by call
\* A caller creates a socket; last keeps the call: the answers f, the
\* descriptor table before (os0) and after (os1), the results and the log.
SockCall(g, f) ==
    /\ LET r == sysSocket(g, os, <<>>, f)
       IN /\ os' = r.os
          /\ last' = [op |-> "sysSocket", f |-> f, fd |-> r.fd, err |-> r.err,
                      log |-> r.log, os0 |-> os, os1 |-> r.os]
    /\ UNCHANGED <<ep, log, calls, reg, hist, pc, loc, rd, tty, wr, sa>>

\* The caller closes a socket it holds.
SockRelease(fd) ==
    /\ os[fd].own # 0
    /\ os' = SysClose(os, fd).os
    /\ UNCHANGED <<ep, log, calls, reg, hist, pc, loc, last, rd, tty, wr, sa>>

SockNext ==
    \/ \E g \in Callers : \E f \in SockFaults : SockCall(g, f)
    \/ \E fd \in FdNums : SockRelease(fd)

SockSpec == Init /\ [][SockNext]_vars

\* C25: sysSocket returns a fresh descriptor that is non-blocking and
\* close-on-exec, or an error with descriptor -1 and the descriptor table as it
\* was; the fallback runs only after EINVAL or EPROTONOSUPPORT, any other
\* creation error returns at once, and a failed SetNonblock is followed by the
\* close of the created socket.
C25_SysSocketContract ==
    last.op = "sysSocket" =>
      LET r1 == SocketAnswer(last.os0, last.f.s1) IN
      /\ \/ /\ last.err = "nil"
            /\ last.fd \in FdNums
            /\ last.os0[last.fd].own = 0
            /\ last.os1[last.fd].own # 0
            /\ last.os1[last.fd].nonblock
            /\ last.os1[last.fd].cloexec
         \/ /\ last.err # "nil"
            /\ last.fd = NoFd
            /\ last.os1 = last.os0
      /\ HasEvent(last.log, "setnonblock") => r1 \in {"EINVAL", "EPROTONOSUPPORT"}
      /\ r1 \notin {"nil", "EINVAL", "EPROTONOSUPPORT"} =>
            last.err = "socket" /\ last.log = <<>>
      /\ last.err = "setnonblock" =>
            /\ Len(last.log) = 3
            /\ last.log[3] = Ev("close", last.log[1].fd)

\* The flagged creation was rejected as unsupported and the fallback produced a
\* non-blocking, close-on-exec socket.
C25_Witness ==
    /\ last.op = "sysSocket"
    /\ last.f.s1 = "EPROTONOSUPPORT"
    /\ last.err = "nil"
    /\ HasEvent(last.log, "setnonblock")
    /\ last.os1[last.fd].nonblock /\ last.os1[last.fd].cloexec

\* --------------------------------------------- newTermios, input by input
\* The line settings newTermios is handed: supported and unsupported values of
\* each of the four fields, in every combination.
TermConfigs ==
    {[BaseConfig(EndPointSerial, "a") EXCEPT
         !.BaudRate = br, !.DataBits = db, !.StopBits = sb, !.Parity = pa] :
        br \in {9600, 115200, 1234}, db \in 4..9, sb \in 0..3,
        pa \in (PARITY_NONE - 1)..(PARITY_SPACE + 1)}

\* termios, err = newTermios(c); last keeps the argument and the results.
TermCall(c) ==
    /\ last' = [op |-> "newTermios", c |-> c, t |-> newTermios(c)]
    /\ UNCHANGED <<os, ep, log, calls, reg, hist, pc, loc, rd, tty, wr, sa>>

TermNext == \E c \in TermConfigs : TermCall(c)

TermSpec == Init /\ [][TermNext]_vars

C27_FailedOpenFrame ==
    (last.op = "Open" /\ last.err # "nil") => reg = last.reg0

\* The transport's Open failed while the registry held an entry.
C27_Witness ==
    /\ last.op = "Open"
    /\ last.err \notin {"nil", "opening serial repeated is unsupported"}
    /\ \E n \in Names : reg[n].ok
    /\ reg = last.reg0

\* C28: during a serial Write call on a descriptor that reports its counts
\* truthfully the write cursor stays within 0..len(b), an interrupted write
\* attempt included, so that b[cursor:] is a suffix of b.
C28_CursorInRange ==
    (wr.pc # "idle" /\ ~wr.over) => (wr.writeLen >= 0 /\ wr.writeLen <= Len(wr.b))

\* C29: when a serial Read call returns, its count tells the bytes the call
\* stored in the buffer: with a nil error it is that total and lies in
\* 1..len(b); with an error it is that total or one of the conventional 0, -1,
\* never another number.
C29_ReadCountIsStored ==
    rd.pc = "done" =>
      /\ rd.err = "nil" => (rd.n = rd.readLen /\ rd.n >= 1 /\ rd.n <= rd.len)
      /\ rd.err # "nil" => rd.n \in {rd.readLen, 0, -1}

====
